---- MODULE Spec2Model ----
(***************************************************************************)
(* Model of main.go: a small HTTP service over a `users` table.            *)
(*                                                                         *)
(* The process (main) runs its startup steps in program order and then     *)
(* serves requests.  Every request is handled by its own goroutine; a      *)
(* handler is modelled as a small process whose steps are cut at the       *)
(* operations on the shared database handle, so that handlers interleave   *)
(* exactly where the program lets them.  The database is the environment:  *)
(* it may be reachable or not, a statement may succeed or fail, and a      *)
(* result set may break while it is being read.                            *)
(***************************************************************************)
EXTENDS Integers, Sequences, FiniteSets, TLC

(* ------------------------------ bounds --------------------------------- *)

\* number of requests that can be in flight at the same time
NReq == 2

\* number of rows the table may hold (guards the inserting requests)
MaxRows == 2

Reqs == 1..NReq

(* ------------------------------ values --------------------------------- *)

\* type User struct, and its zero value (`var user User`)
User(id, fn, ln) == [id |-> id, first_name |-> fn, last_name |-> ln]

ZeroUser == User(0, "", "")

\* a Go slice of User: `var users []User` is the nil slice
NilSlice == [isNil |-> TRUE, items |-> <<>>]

\* append(users, user): the result is never the nil slice
GoAppend(s, u) == [isNil |-> FALSE, items |-> Append(s.items, u)]

\* what a handler has written to its http.ResponseWriter
NoBody == [kind |-> "none", text |-> "", items |-> <<>>]

\* fmt.Fprintln(w, s): the text s as one line.  http.Error writes its message
\* the same way.
TextBody(s) == [kind |-> "line", text |-> s, items |-> <<>>]

\* json.NewEncoder(w).Encode(users): a nil slice encodes as null, any other
\* slice as an array of its elements
JsonEncode(s) ==
    IF s.isNil THEN [kind |-> "null", text |-> "", items |-> <<>>]
               ELSE [kind |-> "array", text |-> "", items |-> s.items]

\* HTTP status codes used by the handlers
StatusOK == 200
StatusCreated == 201
StatusSeeOther == 303
StatusBadRequest == 400
StatusInternalServerError == 500
StatusServiceUnavailable == 503

(* --------------------------- request inputs ---------------------------- *)

\* A request body: its kind, the fields it carries and their values.
\* "object" is a JSON object, "type" a JSON object whose first_name is a
\* number, "syntax" a body that is not JSON, "empty" an empty body, "form" a
\* URL-encoded form.
Input(kind, fields, fn, ln) ==
    [kind |-> kind, fields |-> fields, first_name |-> fn, last_name |-> ln]

\* no request body
NoInput == Input("none", {}, "", "")

\* bodies of POST /users
JsonBodies ==
    { Input("object", {"first_name", "last_name"}, "ann", "lee"),
      Input("object", {"first_name", "last_name"}, "lee", "ann"),
      Input("type",   {"first_name", "last_name"}, "7",   "lee"),
      Input("syntax", {}, "", ""),
      Input("empty",  {}, "", "") }

\* bodies of POST /create: a full form and one without last_name
Forms ==
    { Input("form", {"first_name", "last_name"}, "ann", "lee"),
      Input("form", {"first_name"},              "ann", "") }

\* the value of a field of a body, the zero value "" when it is missing
Field(b, key) ==
    IF key \in b.fields
    THEN (IF key = "first_name" THEN b.first_name ELSE b.last_name)
    ELSE ""

\* json.NewDecoder(r.Body).Decode(&user): an error for anything but a JSON
\* value that fits the struct; a missing field keeps its zero value, and the
\* bodies carry no id
JsonDecode(b) ==
    IF b.kind = "object"
    THEN [err |-> FALSE,
          user |-> User(0, Field(b, "first_name"), Field(b, "last_name"))]
    ELSE [err |-> TRUE, user |-> ZeroUser]

\* r.FormValue(key): the empty string when the field is missing
FormValue(f, key) == Field(f, key)

(* ------------------------------ database ------------------------------- *)

\* id PK auto-increment: the id the storage gives the next row
NextId(t) == Len(t) + 1

\* INSERT INTO users (first_name, last_name) VALUES (?, ?)
InsertUser(t, fn, ln) == Append(t, User(NextId(t), fn, ln))

\* db.Ping(): succeeds exactly when the handle is open and the database is
\* reachable
Ping(handle, up) == handle = "open" /\ up

(* ------------------------------- state --------------------------------- *)

VARIABLES
    mainPc,     \* where main() is
    phases,     \* the startup steps main() has completed, in order
    exitCode,   \* -1 while the process runs, else its exit status
    probe,      \* what sql.Open and db.Ping met in connectDB
    db,         \* the *sql.DB handle: "none", "open" or "closed"
    dbUp,       \* environment: the database is reachable
    table,      \* the rows of the users table, in storage order
    acked,      \* the payloads whose creation was answered 201 or 303, in order
    req,        \* the inserting request each serving goroutine is handling
    resp        \* the response the process sent last

vars == <<mainPc, phases, exitCode, probe, db, dbUp, table, acked, req, resp>>

\* a goroutine that handles no request
Idle ==
    [pc |-> "idle", route |-> "none", input |-> NoInput, user |-> ZeroUser,
     raced |-> FALSE]

\* a response, with what its handler did on the way to it
NoResp ==
    [ route    |-> "none",     \* the route mux dispatched the request to
      input    |-> NoInput,    \* the request body
      user     |-> ZeroUser,   \* the decoded payload / the form values
      status   |-> 0,          \* status written, 0 when none
      body     |-> NoBody,     \* body written
      location |-> "",         \* Location header of a redirect
      stmts    |-> 0,          \* database statements the handler executed
      pings    |-> 0,          \* pings the handler issued
      dbErr    |-> FALSE,      \* the statement returned an error
      rows     |-> <<>>,       \* the rows the query selected
      rowsErr  |-> FALSE,      \* rows.Err() # nil when the loop ended
      users    |-> NilSlice,   \* the slice getUsersHandler built
      added    |-> 0,          \* rows the table gained while the handler ran
      pingable |-> FALSE,      \* a ping of the handle succeeded at that time
      raced    |-> FALSE,      \* another insert ran while this request was in flight
      after503 |-> FALSE ]     \* the response before was a readiness 503

Init ==
    /\ mainPc = "logging"
    /\ phases = <<>>
    /\ exitCode = -1
    /\ probe = "none"
    /\ db = "none"
    /\ dbUp \in BOOLEAN
    /\ table = <<>>
    /\ acked = <<>>
    /\ req = [r \in Reqs |-> Idle]
    /\ resp = NoResp

(* ------------------------------- main() -------------------------------- *)

\* log.Fatal / log.Fatalf: os.Exit(1).  The process ends at once: deferred
\* calls do not run, and every serving goroutine and connection ends with it.
LogFatal ==
    /\ mainPc' = "exited"
    /\ exitCode' = 1
    /\ req' = [r \in Reqs |-> Idle]
    /\ resp' = NoResp

\* the switch on LOG_DESTINATION; setupFileLogging is fatal when app.log
\* cannot be opened.  Which sink was chosen decides no later step, so it is
\* not kept in the state.
SetupLogging ==
    /\ mainPc = "logging"
    /\ \E dest \in {"file", "stdout", ""} : \E openOk \in BOOLEAN :
         IF dest = "file" /\ ~openOk
         THEN /\ LogFatal
              /\ UNCHANGED phases
         ELSE /\ mainPc' = "config"
              /\ phases' = Append(phases, "logging")
              /\ UNCHANGED <<exitCode, req, resp>>
    /\ UNCHANGED <<probe, db, dbUp, table, acked>>

\* loadConfig returns a nil error on every path: with or without the .env
\* file main() goes on to connect.  The Config only feeds the connection
\* string, whose effect is the outcome of connectDB.
LoadConfig ==
    /\ mainPc = "config"
    /\ mainPc' = "connect"
    /\ phases' = Append(phases, "config")
    /\ UNCHANGED <<exitCode, probe, db, dbUp, table, acked, req, resp>>

\* connectDB with the error of db.Ping dropped: the handle is returned
\* whether the database answered or not
connectDB_PingUnchecked(openOk, up) ==
    IF ~openOk THEN [err |-> TRUE, handle |-> "none"]
    ELSE [err |-> FALSE, handle |-> "open"]

\* connectDB: [err, handle] of sql.Open followed by db.Ping
connectDB(openOk, up) ==
    IF ~openOk THEN [err |-> TRUE, handle |-> "none"]
    ELSE IF ~Ping("open", up) THEN [err |-> TRUE, handle |-> "none"]
    ELSE [err |-> FALSE, handle |-> "open"]

\* db, err := connectDB(config); log.Fatalf on err
ConnectDB ==
    /\ mainPc = "connect"
    /\ \E openOk \in BOOLEAN :
         LET c == connectDB(openOk, dbUp) IN
         /\ probe' = IF ~openOk THEN "open failed"
                     ELSE IF ~dbUp THEN "ping failed" ELSE "ok"
         /\ IF c.err
            THEN /\ LogFatal
                 /\ UNCHANGED <<phases, db>>
            ELSE /\ mainPc' = "router"
                 /\ phases' = Append(phases, "connect")
                 /\ db' = c.handle
                 /\ UNCHANGED <<exitCode, req, resp>>
    /\ UNCHANGED <<dbUp, table, acked>>

\* mux.NewRouter and the six HandleFunc registrations
BuildRouter ==
    /\ mainPc = "router"
    /\ mainPc' = "listen"
    /\ phases' = Append(phases, "router")
    /\ UNCHANGED <<exitCode, probe, db, dbUp, table, acked, req, resp>>

\* http.ListenAndServe: binds the port and serves, or returns at once
ListenAndServe ==
    /\ mainPc = "listen"
    /\ \E bound \in BOOLEAN :
         IF bound
         THEN /\ mainPc' = "serving"
              /\ phases' = Append(phases, "serve")
              /\ UNCHANGED <<exitCode, req, resp>>
         ELSE /\ LogFatal
              /\ UNCHANGED phases
    /\ UNCHANGED <<probe, db, dbUp, table, acked>>

\* the serve loop returns an error: log.Fatal(http.ListenAndServe(...))
ServeReturns ==
    /\ mainPc = "serving"
    /\ LogFatal
    /\ UNCHANGED <<phases, probe, db, dbUp, table, acked>>

\* environment: the database goes away or comes back
DbToggle ==
    /\ mainPc = "serving"
    /\ dbUp' = ~dbUp
    /\ UNCHANGED <<mainPc, phases, exitCode, probe, db, table, acked, req, resp>>

(* ------------------------------ handlers ------------------------------- *)

\* a goroutine of the serve loop is free to take the next request
Accepts(r) == mainPc = "serving" /\ req[r].pc = "idle"

\* requests that have passed decoding and are about to insert
Inserting == {r \in Reqs : req[r].pc = "exec"}

RoomForInsert == Len(table) + Cardinality(Inserting) < MaxRows

\* the outcomes a statement on the handle can have: it cannot succeed while
\* the database is unreachable, and it can fail while it is reachable
StmtOutcomes == IF Ping(db, dbUp) THEN BOOLEAN ELSE {FALSE}

\* the response of a handler of `route` to a request with body b
Response(route, b, u) ==
    [NoResp EXCEPT !.route = route, !.input = b, !.user = u]

\* http.Error(w, msg, code)
HttpError(w, msg, code) ==
    [w EXCEPT !.status = code, !.body = TextBody(msg)]

\* the response goes out; what the environment was at that time goes with it
Send(w, gained) ==
    resp' = [w EXCEPT !.pingable = Ping(db, dbUp),
                      !.added = gained,
                      !.after503 = (resp.route = "GET /readiness"
                                    /\ resp.status = StatusServiceUnavailable)]

\* createUserHandler with the `return` after http.Error missing: the handler
\* goes on to the insert with whatever was decoded
createUserDecode_NoReturn(b) ==
    [return |-> FALSE, w |-> Response("POST /users", b, JsonDecode(b).user)]

\* createUserHandler, up to the insert: decode the body; 400 and return when
\* that fails, else go on to the insert with the decoded user
createUserDecode(b) ==
    LET d == JsonDecode(b) IN
    IF d.err
    THEN [return |-> TRUE,
          w |-> HttpError(Response("POST /users", b, d.user),
                          "decode error", StatusBadRequest)]
    ELSE [return |-> FALSE, w |-> Response("POST /users", b, d.user)]

createUserHandler_Decode(r) ==
    /\ Accepts(r)
    /\ \E b \in JsonBodies :
         LET d == createUserDecode(b) IN
         /\ JsonDecode(b).err \/ RoomForInsert
         /\ IF d.return
            THEN /\ Send(d.w, 0)
                 /\ UNCHANGED req
            ELSE /\ req' = [req EXCEPT ![r] =
                      [pc |-> "exec", route |-> d.w.route,
                       input |-> d.w.input, user |-> d.w.user, raced |-> FALSE]]
                 /\ UNCHANGED resp
    /\ UNCHANGED <<mainPc, phases, exitCode, probe, db, dbUp, table, acked>>

\* createHandler, up to the insert: r.ParseForm and the two r.FormValue
createParseForm(f) ==
    Response("POST /create", f,
             User(0, FormValue(f, "first_name"), FormValue(f, "last_name")))

createHandler_Parse(r) ==
    /\ Accepts(r)
    /\ RoomForInsert
    /\ \E f \in Forms :
         LET w == createParseForm(f) IN
         req' = [req EXCEPT ![r] =
                   [pc |-> "exec", route |-> w.route, input |-> w.input,
                    user |-> w.user, raced |-> FALSE]]
    /\ UNCHANGED <<mainPc, phases, exitCode, probe, db, dbUp, table, acked, resp>>

\* the insert run a second time when the first db.Exec returns an error; the
\* second attempt goes through
execInsert_Retry(q, t, ok, okStatus, okLocation) ==
    LET w == Response(q.route, q.input, q.user) IN
    [w |-> [w EXCEPT !.status = okStatus, !.location = okLocation,
                     !.stmts = IF ok THEN 1 ELSE 2],
     t |-> InsertUser(t, q.user.first_name, q.user.last_name)]

\* the insert answered with success although a failed statement stored
\* nothing: the write is lost
execInsert_ErrorIgnored(q, t, ok, okStatus, okLocation) ==
    LET w == [Response(q.route, q.input, q.user) EXCEPT !.stmts = 1] IN
    [w |-> [w EXCEPT !.status = okStatus, !.location = okLocation],
     t |-> IF ok THEN InsertUser(t, q.user.first_name, q.user.last_name) ELSE t]

\* the rest of createUserHandler and of createHandler: one db.Exec of the
\* insert with the user's two names; 500 when it fails, else the success
\* status of the handler (with the redirect's Location).  `ok` is the outcome
\* of the statement.  Returns the response and the table after the statement.
execInsert(q, t, ok, okStatus, okLocation) ==
    LET w == [Response(q.route, q.input, q.user) EXCEPT !.stmts = 1] IN
    IF ok
    THEN [w |-> [w EXCEPT !.status = okStatus, !.location = okLocation],
          t |-> InsertUser(t, q.user.first_name, q.user.last_name)]
    ELSE [w |-> HttpError(w, "exec error", StatusInternalServerError),
          t |-> t]

\* the step of a handler that runs the insert and answers
ExecStep(r, okStatus, okLocation) ==
    \E ok \in StmtOutcomes :
       LET s == execInsert(req[r], table, ok, okStatus, okLocation) IN
       /\ table' = s.t
       /\ Send([s.w EXCEPT !.dbErr = ~ok, !.raced = req[r].raced],
               Len(s.t) - Len(table))
       /\ acked' = IF s.w.status = okStatus
                   THEN Append(acked, <<req[r].user.first_name, req[r].user.last_name>>)
                   ELSE acked
       /\ req' = [o \in Reqs |->
                   IF o = r THEN Idle
                   ELSE IF req[o].pc = "exec" /\ s.t # table
                        THEN [req[o] EXCEPT !.raced = TRUE]
                        ELSE req[o]]

\* w.WriteHeader(http.StatusCreated) on success
createUserHandler_Exec(r) ==
    /\ mainPc = "serving"
    /\ req[r].pc = "exec"
    /\ req[r].route = "POST /users"
    /\ ExecStep(r, StatusCreated, "")
    /\ UNCHANGED <<mainPc, phases, exitCode, probe, db, dbUp>>

\* http.Redirect(w, r, "/", http.StatusSeeOther) on success
createHandler_Exec(r) ==
    /\ mainPc = "serving"
    /\ req[r].pc = "exec"
    /\ req[r].route = "POST /create"
    /\ ExecStep(r, StatusSeeOther, "/")
    /\ UNCHANGED <<mainPc, phases, exitCode, probe, db, dbUp>>

\* the `for rows.Next()` loop of getUsersHandler over the first n rows of the
\* result set: each row is scanned and appended
RECURSIVE scanRows(_, _, _)
scanRows(s, rows, n) ==
    IF n = 0 THEN s
    ELSE GoAppend(scanRows(s, rows, n - 1), rows[n])

\* the ways the loop can end after n rows of a result set of `len` rows:
\* "eof" (rows.Next() is false after the last row), "scan" (rows.Scan fails on
\* row n + 1), "iter" (rows.Next() is false because reading the result set
\* failed: rows.Err() is set)
LoopEnds(n, len) ==
    IF n < len THEN {"scan", "iter"} ELSE {"eof", "iter"}

\* getUsersHandler: db.Query, 500 when it fails; else the loop, 500 when a
\* scan fails; else the slice is encoded, rows.Err() unread
getUsers(t, ok, n, end) ==
    LET w == [Response("GET /users", NoInput, ZeroUser) EXCEPT !.stmts = 1]
        users == scanRows(NilSlice, t, n)
    IN
    IF ~ok THEN HttpError(w, "query error", StatusInternalServerError)
    ELSE IF end = "scan"
    THEN HttpError([w EXCEPT !.rows = t, !.users = users],
                   "scan error", StatusInternalServerError)
    ELSE [w EXCEPT !.rows = t, !.users = users, !.rowsErr = (end = "iter"),
                   !.status = StatusOK, !.body = JsonEncode(users)]

getUsersHandler(r) ==
    /\ Accepts(r)
    /\ \E ok \in StmtOutcomes :
         \E n \in 0..Len(table) : \E end \in LoopEnds(n, Len(table)) :
            Send([getUsers(table, ok, n, end) EXCEPT !.dbErr = ~ok], 0)
    /\ UNCHANGED <<mainPc, phases, exitCode, probe, db, dbUp, table, acked, req>>

\* showFormHandler: template.Must panics when form.html cannot be parsed; the
\* server recovers the panic and the request gets no response
showForm(parsed) ==
    LET w == Response("GET /", NoInput, ZeroUser) IN
    IF parsed THEN [w EXCEPT !.status = StatusOK, !.body = TextBody("form")]
    ELSE w

showFormHandler(r) ==
    /\ Accepts(r)
    /\ \E parsed \in BOOLEAN : Send(showForm(parsed), 0)
    /\ UNCHANGED <<mainPc, phases, exitCode, probe, db, dbUp, table, acked, req>>

\* a liveness check that pings the handle the way the readiness check does
healthCheck_Pings(handle, up) ==
    LET w == [Response("GET /health", NoInput, ZeroUser) EXCEPT !.pings = 1] IN
    IF ~Ping(handle, up)
    THEN [w EXCEPT !.status = StatusServiceUnavailable,
                   !.body = TextBody("Database is not available")]
    ELSE [w EXCEPT !.status = StatusOK, !.body = TextBody("OK")]

\* healthCheckHandler: WriteHeader(200), Fprintln(w, "OK"); the handler is
\* not given the handle
healthCheck(handle, up) ==
    [Response("GET /health", NoInput, ZeroUser)
        EXCEPT !.status = StatusOK, !.body = TextBody("OK")]

healthCheckHandler(r) ==
    /\ Accepts(r)
    /\ Send(healthCheck(db, dbUp), 0)
    /\ UNCHANGED <<mainPc, phases, exitCode, probe, db, dbUp, table, acked, req>>

\* a readiness check that pings and answers 200 whatever the ping returned
readinessCheck_ErrIgnored(handle, up) ==
    [Response("GET /readiness", NoInput, ZeroUser)
        EXCEPT !.pings = 1, !.status = StatusOK, !.body = TextBody("OK")]

\* readinessCheckHandler: one db.Ping, 503 when it fails, else 200
readinessCheck(handle, up) ==
    LET w == [Response("GET /readiness", NoInput, ZeroUser) EXCEPT !.pings = 1] IN
    IF ~Ping(handle, up)
    THEN [w EXCEPT !.status = StatusServiceUnavailable,
                   !.body = TextBody("Database is not available")]
    ELSE [w EXCEPT !.status = StatusOK, !.body = TextBody("OK")]

readinessCheckHandler(r) ==
    /\ Accepts(r)
    /\ Send(readinessCheck(db, dbUp), 0)
    /\ UNCHANGED <<mainPc, phases, exitCode, probe, db, dbUp, table, acked, req>>

Next ==
    \/ SetupLogging
    \/ LoadConfig
    \/ ConnectDB
    \/ BuildRouter
    \/ ListenAndServe
    \/ ServeReturns
    \/ DbToggle
    \/ \E r \in Reqs : createUserHandler_Decode(r)
    \/ \E r \in Reqs : createUserHandler_Exec(r)
    \/ \E r \in Reqs : createHandler_Parse(r)
    \/ \E r \in Reqs : createHandler_Exec(r)
    \/ \E r \in Reqs : getUsersHandler(r)
    \/ \E r \in Reqs : showFormHandler(r)
    \/ \E r \in Reqs : healthCheckHandler(r)
    \/ \E r \in Reqs : readinessCheckHandler(r)

Spec == Init /\ [][Next]_vars

(* ------------------------------ properties ----------------------------- *)

\* the startup steps of main(), in program order
StartupOrder == <<"logging", "config", "connect", "router", "serve">>

IsPrefix(a, b) == Len(a) <= Len(b) /\ \A i \in 1..Len(a) : a[i] = b[i]

\* the number of entries of the sequence q that satisfy Test
CountIn(q, Test(_)) == Cardinality({i \in 1..Len(q) : Test(q[i])})

\* the ids of the records of q are pairwise distinct
DistinctIds(q) == \A i, j \in 1..Len(q) : i # j => q[i].id # q[j].id

\* the pairs of names a request can create a user with
Payloads ==
    {<<JsonDecode(b).user.first_name, JsonDecode(b).user.last_name>> :
        b \in {x \in JsonBodies : ~JsonDecode(x).err}}
    \cup {<<FormValue(f, "first_name"), FormValue(f, "last_name")>> : f \in Forms}

\* the records of q that carry the pair of names p
Carrying(q, p) ==
    CountIn(q, LAMBDA u : u.first_name = p[1] /\ u.last_name = p[2])

TypeOK ==
    /\ mainPc \in {"logging", "config", "connect", "router", "listen", "serving", "exited"}
    /\ exitCode \in {-1, 1}
    /\ probe \in {"none", "open failed", "ping failed", "ok"}
    /\ db \in {"none", "open", "closed"}
    /\ dbUp \in BOOLEAN
    /\ Len(table) <= MaxRows
    /\ \A r \in Reqs : req[r].pc \in {"idle", "exec"}

\* C1.  Every list that GET /users answers with status 200 holds, for every
\* creation (POST /users or POST /create) answered with success before it, a
\* record of its own with exactly that first_name and last_name, and no two
\* records of the list share an id.
C1_CreatedUsersAreListed ==
    (resp.route = "GET /users" /\ resp.status = StatusOK) =>
        /\ \A p \in Payloads :
              Carrying(resp.body.items, p) >= CountIn(acked, LAMBDA a : a = p)
        /\ DistinctIds(resp.body.items)

\* The same when the read of the result set met no error: then every
\* acknowledged creation is in the list.
ListedWhenReadCompletes ==
    (resp.route = "GET /users" /\ resp.status = StatusOK /\ ~resp.rowsErr) =>
        /\ \A p \in Payloads :
              Carrying(resp.body.items, p) >= CountIn(acked, LAMBDA a : a = p)
        /\ DistinctIds(resp.body.items)

\* C2.  GET /users on an empty table answers 200 with an empty JSON array:
\* not null, not nothing.
C2_EmptyTableIsEmptyArray ==
    (resp.route = "GET /users" /\ ~resp.dbErr /\ ~resp.rowsErr /\ resp.rows = <<>>) =>
        /\ resp.status = StatusOK
        /\ resp.body.kind = "array"
        /\ resp.body.items = <<>>

\* C3.  A POST /users whose body fails JSON decoding is answered 400, has run
\* no statement and has added no row; no request with such a body is ever on
\* its way to the insert.
C3_DecodeErrorIs400 ==
    /\ (resp.route = "POST /users" /\ resp.input.kind # "object") =>
          /\ resp.status = StatusBadRequest
          /\ resp.stmts = 0
          /\ resp.added = 0
    /\ \A r \in Reqs :
          req[r].route = "POST /users" => req[r].input.kind = "object"

C3_Witness ==
    /\ resp.route = "POST /users"
    /\ resp.input.kind = "syntax"
    /\ resp.status = StatusBadRequest
    /\ table # <<>>

\* C4.  Whatever the interleaving of the inserting requests, the rows of the
\* table are exactly the creations answered with success, one row each (none
\* lost, none twice), and no two rows share an id.
C4_OneRowPerCreation ==
    /\ Len(table) = Len(acked)
    /\ \A p \in Payloads :
          Carrying(table, p) = CountIn(acked, LAMBDA a : a = p)
    /\ DistinctIds(table)
    /\ (resp.route \in {"POST /users", "POST /create"}
           /\ resp.status \in {StatusCreated, StatusSeeOther}) => resp.added = 1

\* two POST /users with distinct payloads that were in flight together have
\* both been answered 201
C4_Witness ==
    /\ resp.route = "POST /users"
    /\ resp.status = StatusCreated
    /\ resp.raced
    /\ Len(table) = 2
    /\ <<table[1].first_name, table[1].last_name>> = <<"lee", "ann">>
    /\ <<table[2].first_name, table[2].last_name>> = <<"ann", "lee">>
    /\ resp.input.kind = "object"

\* C5.  GET /readiness pings the handle once per request and answers 200 "OK"
\* exactly when the ping succeeds and 503 "Database is not available" exactly
\* when it fails; the process goes on serving after either answer.
C5_ReadinessFollowsPing ==
    resp.route = "GET /readiness" =>
        /\ resp.pings = 1
        /\ \/ /\ resp.pingable
              /\ resp.status = StatusOK
              /\ resp.body = TextBody("OK")
           \/ /\ ~resp.pingable
              /\ resp.status = StatusServiceUnavailable
              /\ resp.body = TextBody("Database is not available")
        /\ mainPc = "serving"
        /\ exitCode = -1

\* a readiness check answers 200 right after one that answered 503
C5_Witness ==
    /\ resp.route = "GET /readiness"
    /\ resp.after503
    /\ resp.status = StatusOK

\* C6.  GET /health answers 200 "OK" whether the database is reachable or not
\* and touches the handle with neither a ping nor a statement.
C6_HealthAlwaysOK ==
    resp.route = "GET /health" =>
        /\ resp.status = StatusOK
        /\ resp.body = TextBody("OK")
        /\ resp.pings = 0
        /\ resp.stmts = 0

\* the liveness check answered while the database was unreachable
C6_Witness ==
    /\ resp.route = "GET /health"
    /\ resp.status = StatusOK
    /\ ~resp.pingable

\* C7.  When the insert of POST /users or POST /create fails the answer is
\* 500 without a redirect, the handler has run that one statement only and
\* the table has gained no row; no handler runs more than one statement for a
\* request.
C7_InsertFailureIs500 ==
    /\ resp.stmts <= 1
    /\ (resp.route \in {"POST /users", "POST /create"} /\ resp.dbErr) =>
          /\ resp.status = StatusInternalServerError
          /\ resp.location = ""
          /\ resp.stmts = 1
          /\ resp.added = 0

\* the insert of a POST /create failed on a table that already has a row
C7_Witness ==
    /\ resp.route = "POST /create"
    /\ resp.dbErr
    /\ resp.status = StatusInternalServerError
    /\ table # <<>>

\* C8.  GET /users answers 500 whenever the query, a scan or the iteration
\* over the rows fails, and a list answered with 200 holds every row the
\* query selected.
C8_ReadErrorsAre500 ==
    resp.route = "GET /users" =>
        /\ (resp.dbErr \/ resp.rowsErr) => resp.status = StatusInternalServerError
        /\ resp.status = StatusOK => resp.body.items = resp.rows

\* C9.  The startup steps run in program order; a request is handled only
\* after sql.Open and db.Ping both succeeded; when either failed the process
\* has exited with a nonzero status and never built the router or listened.
C9_StartupOrder ==
    /\ IsPrefix(phases, StartupOrder)
    /\ (mainPc \in {"router", "listen", "serving"}
            \/ resp.route # "none"
            \/ \E r \in Reqs : req[r].pc # "idle") => probe = "ok"
    /\ probe \in {"open failed", "ping failed"} =>
          /\ mainPc = "exited"
          /\ exitCode # 0 /\ exitCode # -1
          /\ phases = <<"logging", "config">>

\* the ping of connectDB failed and the process is gone
C9_Witness ==
    /\ probe = "ping failed"
    /\ mainPc = "exited"
    /\ exitCode = 1

\* C10.  Whenever the process has stopped after the database connection
\* succeeded, the handle has been closed.
C10_HandleClosedOnExit ==
    (mainPc = "exited" /\ probe = "ok") => db = "closed"

====
